---- MODULE Spec2Model ----
(***************************************************************************)
(* A model of the to-do-list backend: the relational tables of             *)
(* database.init, the request handlers of server.js and the purge job.     *)
(* Every db.query of a handler is one atomic step (a single autocommit     *)
(* statement); handlers of different requests interleave at their awaits.  *)
(* Time is counted in whole seconds, the precision of the DATETIME column. *)
(***************************************************************************)
EXTENDS Integers, FiniteSets, Sequences, TLC

\* ---------------------------------------------------------------- bounds
MaxTime == 2         \* the clock stops here
NumProcs == 2        \* requests in flight at once
MaxUserId == 2       \* rows ever inserted into todo.users
MaxSessionId == 2    \* rows ever inserted into todo.sessions
MaxListId == 2       \* rows ever inserted into todo.lists
MaxItemId == 1       \* rows ever inserted into todo.items
MaxPermId == 3       \* rows ever inserted into todo.permissions
MaxSalt == 3         \* salts ever drawn by getSalt
TokenLifetime == 1   \* config.tokenLifetime, in seconds

Procs == 1..NumProcs
Usernames == {"johndoe", "janedoe"}
Passwords == {"secret", "hunter2"}
ListNames == {"Groceries", "Chores"}

\* ---------------------------------------------------------------- values
\* SQL NULL of a nullable BIGINT column; AUTO_INCREMENT ids start at 1.
NULL == -1
Roles == {"owner", "write", "read"}
Denied == "denied"
NoToken == <<"none">>
ForgedToken == <<"forged", 1>>
InvalidToken == -2

VARIABLES now, users, sessions, lists, items, permissions, nextId, req, resp, job

\* The purge job between runs, with the outcome of its last run's two deletes.
JobIdle(pass1, pass2) == [pc |-> "idle", conn |-> "released", pass1 |-> pass1, pass2 |-> pass2]

vars == <<now, users, sessions, lists, items, permissions, nextId, req, resp, job>>
tables == <<users, sessions, lists, items, permissions, nextId>>

\* ---------------------------------------------------------------- crypto
\* Symbolic: a hash is determined by, and determines, its two inputs.
hashPassword(password, salt) == <<"hash", password, salt>>

\* getSalt: random bytes, a value never drawn before.
getSalt == nextId.salts

\* A token is the sealed session id; only a sealed token opens.
encrypt(sessionId) == <<"sealed", sessionId>>

decrypt(token) ==
    IF Len(token) = 2 /\ token[1] = "sealed" THEN token[2] ELSE InvalidToken

\* Tokens a client can present: none, a forged one, or one the service issued.
ClientTokens == {NoToken, ForgedToken} \cup {encrypt(s) : s \in 1..(nextId.sessions - 1)}

\* ---------------------------------------------------------------- requests
Idle == [op |-> "none", pc |-> "idle", token |-> NoToken, userId |-> NULL,
         sessionId |-> NULL, listId |-> NULL, target |-> NULL, role |-> "none",
         granted |-> "none", arg |-> "none", itemId |-> NULL]

NoResp == [op |-> "none", status |-> 0, token |-> NoToken, userId |-> NULL,
           sessionId |-> NULL, listId |-> NULL, target |-> NULL, role |-> "none",
           arg |-> "none", itemId |-> NULL, result |-> {}]

\* route: send the handler's result (or the error handler's status) and free the
\* slot. resp keeps what the last response answered: all of a successful request,
\* the token of a 401, the identity and the list of a 403.
Respond(p, r, status, result) ==
    /\ req' = [req EXCEPT ![p] = Idle]
    /\ resp' = IF status < 300
               THEN [op |-> r.op, status |-> status, token |-> r.token,
                     userId |-> r.userId, sessionId |-> r.sessionId, listId |-> r.listId,
                     target |-> r.target, role |-> r.role, arg |-> r.arg,
                     itemId |-> r.itemId, result |-> result]
               ELSE IF status = 401
               THEN [NoResp EXCEPT !.op = r.op, !.status = status, !.token = r.token]
               ELSE IF status = 403
               THEN [NoResp EXCEPT !.op = r.op, !.status = status, !.userId = r.userId,
                                   !.listId = r.listId]
               ELSE [NoResp EXCEPT !.op = r.op, !.status = status, !.arg = r.arg]

Continue(p, r) ==
    /\ req' = [req EXCEPT ![p] = r]
    /\ UNCHANGED resp

At(p, op, pc) == req[p].op = op /\ req[p].pc = pc

\* Rows still to be inserted by the requests in flight.
Pending(pc) == Cardinality({q \in Procs : req[q].pc = pc})

\* ---------------------------------------------------------------- AuthGate
Unauthorized == [ok |-> FALSE, userId |-> NULL, sessionId |-> NULL]
Anonymous == [ok |-> TRUE, userId |-> NULL, sessionId |-> NULL]

\* authenticate(req, db, policy) for the token modes: required (default), false.
authenticate(token, required) ==
    IF token = NoToken
    THEN IF required THEN Unauthorized ELSE Anonymous
    ELSE LET sessionId == decrypt(token)
             rows == {s \in sessions : s.id = sessionId}
         IN IF sessionId = InvalidToken \/ rows = {}
            THEN Unauthorized
            ELSE LET session == CHOOSE s \in rows : TRUE
                 IN IF session.expirationDate <= now
                    THEN Unauthorized
                    ELSE [ok |-> TRUE, userId |-> session.userId, sessionId |-> session.id]

\* authenticate(req, db, 'credentials'): username and password of the body.
authenticateCredentials(username, password) ==
    LET rows == {u \in users : u.username = username}
    IN IF rows = {}
       THEN Unauthorized
       ELSE LET user == CHOOSE u \in rows : TRUE
            IN IF hashPassword(password, user.salt) = user.password
               THEN [ok |-> TRUE, userId |-> user.id, sessionId |-> NULL]
               ELSE Unauthorized

\* ---------------------------------------------------------------- storage
UserIds == {u.id : u \in users}
ListIds == {l.id : l \in lists}

\* The insert with the lifetime taken as the instant: new Date(config.tokenLifetime).
InsertSessionAbsoluteLifetime(userId, expireTime) ==
    IF userId \in UserIds
    THEN {[id |-> nextId.sessions, userId |-> userId, expirationDate |-> TokenLifetime]}
    ELSE {}

\* INSERT INTO todo.sessions(userId, expirationDate): the row, or none when the
\* foreign key on userId fails.
InsertSession(userId, expireTime) ==
    IF userId \in UserIds
    THEN {[id |-> nextId.sessions, userId |-> userId, expirationDate |-> expireTime]}
    ELSE {}

\* The delete against tables whose foreign keys do not cascade.
DeleteUserNoCascade(userId) ==
    /\ users' = {u \in users : u.id # userId}
    /\ sessions' = sessions
    /\ permissions' = permissions

\* DELETE FROM todo.users WHERE id = ?, with its ON DELETE CASCADE.
DeleteUserCascade(userId) ==
    /\ users' = {u \in users : u.id # userId}
    /\ sessions' = {s \in sessions : s.userId # userId}
    /\ permissions' = {g \in permissions : g.userId # userId}

\* ---------------------------------------------------------------- POST /user
\* The insert against a table without UNIQUE(username).
SignupInsertUserNoUnique(p) ==
    /\ req[p].pc = "idle"
    /\ \E username \in Usernames, password \in Passwords :
         LET r == [Idle EXCEPT !.op = "signup", !.arg = username]
             salt == getSalt
         IN /\ nextId.users <= MaxUserId
            /\ nextId.salts <= MaxSalt
            /\ nextId.sessions + Pending("insertSession") <= MaxSessionId
            /\ users' = users \cup {[id |-> nextId.users, username |-> username,
                                      password |-> hashPassword(password, salt),
                                      salt |-> salt]}
            /\ nextId' = [nextId EXCEPT !.users = @ + 1, !.salts = @ + 1]
            /\ Continue(p, [r EXCEPT !.pc = "insertSession", !.userId = nextId.users])
            /\ UNCHANGED <<sessions, lists, items, permissions, now, job>>

SignupInsertUser(p) ==
    /\ req[p].pc = "idle"
    /\ \E username \in Usernames, password \in Passwords :
         LET r == [Idle EXCEPT !.op = "signup", !.arg = username]
             salt == getSalt
         IN IF \E u \in users : u.username = username
            THEN \* ER_DUP_ENTRY on UNIQUE(username)
                 /\ Respond(p, r, 409, {})
                 /\ UNCHANGED <<tables, now, job>>
            ELSE /\ nextId.users <= MaxUserId
                 /\ nextId.salts <= MaxSalt
                 /\ nextId.sessions + Pending("insertSession") <= MaxSessionId
                 /\ users' = users \cup {[id |-> nextId.users, username |-> username,
                                           password |-> hashPassword(password, salt),
                                           salt |-> salt]}
                 /\ nextId' = [nextId EXCEPT !.users = @ + 1, !.salts = @ + 1]
                 /\ Continue(p, [r EXCEPT !.pc = "insertSession", !.userId = nextId.users])
                 /\ UNCHANGED <<sessions, lists, items, permissions, now, job>>

SignupInsertSession(p) ==
    /\ At(p, "signup", "insertSession")
    /\ LET r == req[p]
           row == InsertSession(r.userId, now + TokenLifetime)
       IN IF row = {}
          THEN /\ Respond(p, r, 500, {})
               /\ UNCHANGED <<tables, now, job>>
          ELSE /\ sessions' = sessions \cup row
               /\ nextId' = [nextId EXCEPT !.sessions = @ + 1]
               /\ Respond(p, [r EXCEPT !.sessionId = nextId.sessions,
                                       !.token = encrypt(nextId.sessions)],
                          201, {now + TokenLifetime})
               /\ UNCHANGED <<users, lists, items, permissions, now, job>>

\* The token step every token-authenticated handler starts with.
AuthStep(p, r, required, nextpc) ==
    LET a == authenticate(r.token, required)
    IN IF a.ok
       THEN Continue(p, [r EXCEPT !.pc = nextpc, !.userId = a.userId,
                                  !.sessionId = a.sessionId])
       ELSE Respond(p, r, 401, {})

\* ---------------------------------------------------------------- GET /user
\* The handler calling authenticate(req, db, false).
GetUserAuthenticateOptional(p) ==
    /\ req[p].pc = "idle"
    /\ \E token \in ClientTokens :
         AuthStep(p, [Idle EXCEPT !.op = "getUser", !.token = token], FALSE, "query")
    /\ UNCHANGED <<tables, now, job>>

GetUserAuthenticate(p) ==
    /\ req[p].pc = "idle"
    /\ \E token \in ClientTokens :
         AuthStep(p, [Idle EXCEPT !.op = "getUser", !.token = token], TRUE, "query")
    /\ UNCHANGED <<tables, now, job>>

GetUserQuery(p) ==
    /\ At(p, "getUser", "query")
    /\ LET r == req[p]
           results == {u \in users : u.id = r.userId}
       IN IF results = {}
          THEN Respond(p, r, 500, {})
          ELSE Respond(p, r, 200, {u.username : u \in results})
    /\ UNCHANGED <<tables, now, job>>

\* ---------------------------------------------------------------- PUT /user
\* arg is the new password, or "none" for a body without one.
PutUserAuthenticate(p) ==
    /\ req[p].pc = "idle"
    /\ nextId.salts + Pending("update") <= MaxSalt
    /\ \E token \in ClientTokens, password \in Passwords \cup {"none"} :
         LET r == [Idle EXCEPT !.op = "putUser", !.token = token, !.arg = password]
             a == authenticate(token, TRUE)
         IN IF a.ok /\ password = "none"
            THEN Respond(p, [r EXCEPT !.userId = a.userId, !.sessionId = a.sessionId],
                         200, {})
            ELSE AuthStep(p, r, TRUE, "update")
    /\ UNCHANGED <<tables, now, job>>

\* The update that also renews the caller's session.
PutUserQueryRenewingSession(p) ==
    /\ At(p, "putUser", "update")
    /\ LET r == req[p]
           salt == getSalt
           hit == {u \in users : u.id = r.userId}
           mine == {s \in sessions : s.id = r.sessionId}
       IN /\ users' = (users \ hit) \cup
                      {[u EXCEPT !.password = hashPassword(r.arg, salt), !.salt = salt] :
                         u \in hit}
          /\ sessions' = (sessions \ mine) \cup
                         {[s EXCEPT !.expirationDate = now + TokenLifetime] : s \in mine}
          /\ nextId' = [nextId EXCEPT !.salts = @ + 1]
          /\ Respond(p, r, IF hit = {} THEN 500 ELSE 200, {})
    /\ UNCHANGED <<lists, items, permissions, now, job>>

PutUserQuery(p) ==
    /\ At(p, "putUser", "update")
    /\ LET r == req[p]
           salt == getSalt
           hit == {u \in users : u.id = r.userId}
       IN /\ users' = (users \ hit) \cup
                      {[u EXCEPT !.password = hashPassword(r.arg, salt), !.salt = salt] :
                         u \in hit}
          /\ nextId' = [nextId EXCEPT !.salts = @ + 1]
          /\ Respond(p, r, IF hit = {} THEN 500 ELSE 200, {})
    /\ UNCHANGED <<sessions, lists, items, permissions, now, job>>

\* ---------------------------------------------------------------- DELETE /user
DeleteUserAuthenticate(p) ==
    /\ req[p].pc = "idle"
    /\ \E token \in ClientTokens :
         AuthStep(p, [Idle EXCEPT !.op = "deleteUser", !.token = token], TRUE, "query")
    /\ UNCHANGED <<tables, now, job>>

DeleteUserQuery(p) ==
    /\ At(p, "deleteUser", "query")
    /\ LET r == req[p]
       IN /\ DeleteUserCascade(r.userId)
          /\ Respond(p, r, IF r.userId \in UserIds THEN 200 ELSE 500, {})
    /\ UNCHANGED <<lists, items, nextId, now, job>>

\* ---------------------------------------------------------------- GET /user/name-taken
GetNameTaken(p) ==
    /\ req[p].pc = "idle"
    /\ \E username \in Usernames :
         Respond(p, [Idle EXCEPT !.op = "nameTaken", !.arg = username], 200,
                 {\E u \in users : u.username = username})
    /\ UNCHANGED <<tables, now, job>>

\* ---------------------------------------------------------------- POST /user/login
LoginAuthenticate(p) ==
    /\ req[p].pc = "idle"
    /\ nextId.sessions + Pending("insertSession") <= MaxSessionId
    /\ \E username \in Usernames, password \in Passwords :
         LET r == [Idle EXCEPT !.op = "login", !.arg = username]
             a == authenticateCredentials(username, password)
         IN IF a.ok
            THEN Continue(p, [r EXCEPT !.pc = "insertSession", !.userId = a.userId])
            ELSE Respond(p, r, 401, {})
    /\ UNCHANGED <<tables, now, job>>

LoginInsertSession(p) ==
    /\ At(p, "login", "insertSession")
    /\ LET r == req[p]
           row == InsertSession(r.userId, now + TokenLifetime)
       IN IF row = {}
          THEN /\ Respond(p, r, 500, {})
               /\ UNCHANGED <<tables, now, job>>
          ELSE /\ sessions' = sessions \cup row
               /\ nextId' = [nextId EXCEPT !.sessions = @ + 1]
               /\ Respond(p, [r EXCEPT !.sessionId = nextId.sessions,
                                       !.token = encrypt(nextId.sessions)],
                          200, {now + TokenLifetime})
               /\ UNCHANGED <<users, lists, items, permissions, now, job>>

\* ---------------------------------------------------------------- POST /user/logout
LogoutAuthenticate(p) ==
    /\ req[p].pc = "idle"
    /\ \E token \in ClientTokens :
         LET r == [Idle EXCEPT !.op = "logout", !.token = token]
             a == authenticate(token, FALSE)
         IN IF a.ok /\ a.sessionId = NULL
            THEN Respond(p, r, 200, {})
            ELSE AuthStep(p, r, FALSE, "query")
    /\ UNCHANGED <<tables, now, job>>

\* The delete keyed by the user: DELETE FROM todo.sessions WHERE userId = ?.
LogoutQueryByUser(p) ==
    /\ At(p, "logout", "query")
    /\ sessions' = {s \in sessions : s.userId # req[p].userId}
    /\ Respond(p, req[p], 200, {})
    /\ UNCHANGED <<users, lists, items, permissions, nextId, now, job>>

LogoutQuery(p) ==
    /\ At(p, "logout", "query")
    /\ sessions' = {s \in sessions : s.id # req[p].sessionId}
    /\ Respond(p, req[p], 200, {})
    /\ UNCHANGED <<users, lists, items, permissions, nextId, now, job>>

\* ---------------------------------------------------------------- PermissionModel
RoleRank(role) ==
    CASE role = "owner" -> 3
      [] role = "write" -> 2
      [] role = "read" -> 1
      [] OTHER -> 0

\* The rows of one subject on one list; NULL is a key like any other
\* (IF(? IS NOT NULL, userId = ?, userId IS NULL)).
PermissionRows(perms, userId, listId) ==
    {g \in perms : g.listId = listId /\ g.userId = userId}

\* requireAtLeast over a permissions table: the role a row holds when it meets
\* minRole, Denied when it does not or when there is no row.
requireAtLeast(perms, userId, listId, minRole) ==
    LET rows == PermissionRows(perms, userId, listId)
    IN IF rows = {}
       THEN {Denied}
       ELSE {IF RoleRank(g.role) >= RoleRank(minRole) THEN g.role ELSE Denied : g \in rows}

\* checkPermissions(req, db, userId, listId, role)
checkPermissions(userId, listId, minRole) ==
    requireAtLeast(permissions, userId, listId, minRole)

\* The permission step of a list-scoped handler, up to its next await: 403 when
\* denied; otherwise the handler returns at once with status (finished) or goes
\* on to its query.
CheckStep(p, minRole, finished, status) ==
    LET r == req[p]
    IN \E outcome \in checkPermissions(r.userId, r.listId, minRole) :
         IF outcome = Denied
         THEN Respond(p, r, 403, {})
         ELSE IF finished
              THEN Respond(p, [r EXCEPT !.granted = outcome], status, {})
              ELSE Continue(p, [r EXCEPT !.pc = "query", !.granted = outcome])

\* What a client can put in the path and the body.
ListIdParams == 1..MaxListId
ItemIdParams == 1..MaxItemId
\* 0 is a path segment that names no user ("null", an unknown id).
UserIdParams == 0..MaxUserId
RoleParams == Roles \cup {"admin"}
StateParams == {"none", "complete", "bogus"}
ItemStates == {"in-progress", "complete", "canceled"}

ListRequest(op, token, listId) ==
    [Idle EXCEPT !.op = op, !.token = token, !.listId = listId]

\* Requests in flight that will still insert a row.
PendingLists == Cardinality({q \in Procs : req[q].pc = "insertList"})
PendingPerms == Cardinality({q \in Procs : req[q].op \in {"postList", "putListUser"}})
PendingItems == Cardinality({q \in Procs : req[q].op = "postItem"})

\* DELETE FROM todo.lists WHERE id in gone, with its ON DELETE CASCADE.
DeleteListsCascade(gone) ==
    /\ lists' = {l \in lists : l.id \notin gone}
    /\ items' = {i \in items : i.listId \notin gone}
    /\ permissions' = {g \in permissions : g.listId \notin gone}

\* A plain INSERT that the unique key does not stop.
UpsertInsertOnly(perms, id, userId, listId, role) ==
    perms \cup {[id |-> id, userId |-> userId, listId |-> listId, role |-> role]}

\* INSERT IGNORE: an existing row keeps its role.
UpsertKeepRole(perms, id, userId, listId, role) ==
    IF \E g \in perms : g.userId = userId /\ g.listId = listId
    THEN perms
    ELSE perms \cup {[id |-> id, userId |-> userId, listId |-> listId, role |-> role]}

\* INSERT INTO todo.permissions ... ON DUPLICATE KEY UPDATE role = VALUES(role):
\* UNIQUE(userId, listId) never matches a NULL userId.
Upsert(perms, id, userId, listId, role) ==
    LET dup == {g \in perms : userId # NULL /\ g.userId = userId /\ g.listId = listId}
    IN IF dup # {}
       THEN (perms \ dup) \cup {[g EXCEPT !.role = role] : g \in dup}
       ELSE perms \cup {[id |-> id, userId |-> userId, listId |-> listId, role |-> role]}

\* ---------------------------------------------------------------- GET /lists
GetListsAuthenticate(p) ==
    /\ req[p].pc = "idle"
    /\ \E token \in ClientTokens :
         AuthStep(p, [Idle EXCEPT !.op = "getLists", !.token = token], FALSE, "query")
    /\ UNCHANGED <<tables, now, job>>

\* The listing without its subquery: SELECT id, name FROM todo.lists.
GetListsQueryAll(p) ==
    /\ At(p, "getLists", "query")
    /\ Respond(p, req[p], 200, lists)
    /\ UNCHANGED <<tables, now, job>>

GetListsQuery(p) ==
    /\ At(p, "getLists", "query")
    /\ LET r == req[p]
           mine == {g.listId : g \in {h \in permissions : h.userId = r.userId}}
       IN Respond(p, r, 200, {l \in lists : l.id \in mine})
    /\ UNCHANGED <<tables, now, job>>

\* ---------------------------------------------------------------- POST /list
PostListAuthenticate(p) ==
    /\ req[p].pc = "idle"
    /\ nextId.lists + PendingLists <= MaxListId
    /\ nextId.permissions + PendingPerms <= MaxPermId
    /\ \E token \in ClientTokens, name \in ListNames :
         AuthStep(p, [Idle EXCEPT !.op = "postList", !.token = token, !.arg = name],
                  FALSE, "insertList")
    /\ UNCHANGED <<tables, now, job>>

PostListInsertList(p) ==
    /\ At(p, "postList", "insertList")
    /\ lists' = lists \cup {[id |-> nextId.lists, name |-> req[p].arg]}
    /\ nextId' = [nextId EXCEPT !.lists = @ + 1]
    /\ Continue(p, [req[p] EXCEPT !.pc = "insertPermission", !.listId = nextId.lists])
    /\ UNCHANGED <<users, sessions, items, permissions, now, job>>

PostListInsertPermission(p) ==
    /\ At(p, "postList", "insertPermission")
    /\ LET r == req[p]
       IN IF r.listId \in ListIds /\ (r.userId = NULL \/ r.userId \in UserIds)
          THEN /\ permissions' = Upsert(permissions, nextId.permissions, r.userId,
                                        r.listId, "owner")
               /\ nextId' = [nextId EXCEPT !.permissions = @ + 1]
               /\ Respond(p, r, 201, {r.listId})
          ELSE \* a foreign key fails
               /\ Respond(p, r, 500, {})
               /\ UNCHANGED <<permissions, nextId>>
    /\ UNCHANGED <<users, sessions, lists, items, now, job>>

\* ---------------------------------------------------------------- GET /list/:listId
GetListAuthenticate(p) ==
    /\ req[p].pc = "idle"
    /\ \E token \in ClientTokens, listId \in ListIdParams :
         AuthStep(p, ListRequest("getList", token, listId), FALSE, "check")
    /\ UNCHANGED <<tables, now, job>>

GetListCheckPermissions(p) ==
    /\ At(p, "getList", "check")
    /\ CheckStep(p, "read", FALSE, 0)
    /\ UNCHANGED <<tables, now, job>>

GetListQuery(p) ==
    /\ At(p, "getList", "query")
    /\ LET results == {l \in lists : l.id = req[p].listId}
       IN Respond(p, req[p], IF results = {} THEN 500 ELSE 200, results)
    /\ UNCHANGED <<tables, now, job>>

\* ---------------------------------------------------------------- PUT /list/:listId
\* arg is the new name, or "none" for an empty body.
PutListAuthenticate(p) ==
    /\ req[p].pc = "idle"
    /\ \E token \in ClientTokens, listId \in ListIdParams, name \in ListNames \cup {"none"} :
         AuthStep(p, [ListRequest("putList", token, listId) EXCEPT !.arg = name],
                  FALSE, "check")
    /\ UNCHANGED <<tables, now, job>>

\* The handler asking for 'read' only.
PutListCheckPermissionsRead(p) ==
    /\ At(p, "putList", "check")
    /\ CheckStep(p, "read", req[p].arg = "none", 200)
    /\ UNCHANGED <<tables, now, job>>

PutListCheckPermissions(p) ==
    /\ At(p, "putList", "check")
    /\ CheckStep(p, "write", req[p].arg = "none", 200)
    /\ UNCHANGED <<tables, now, job>>

PutListQuery(p) ==
    /\ At(p, "putList", "query")
    /\ LET r == req[p]
           hit == {l \in lists : l.id = r.listId}
       IN /\ lists' = (lists \ hit) \cup {[l EXCEPT !.name = r.arg] : l \in hit}
          /\ Respond(p, r, IF hit = {} THEN 500 ELSE 200, {})
    /\ UNCHANGED <<users, sessions, items, permissions, nextId, now, job>>

\* ---------------------------------------------------------------- DELETE /list/:listId
DeleteListAuthenticate(p) ==
    /\ req[p].pc = "idle"
    /\ \E token \in ClientTokens, listId \in ListIdParams :
         AuthStep(p, ListRequest("deleteList", token, listId), FALSE, "check")
    /\ UNCHANGED <<tables, now, job>>

DeleteListCheckPermissions(p) ==
    /\ At(p, "deleteList", "check")
    /\ CheckStep(p, "owner", FALSE, 0)
    /\ UNCHANGED <<tables, now, job>>

DeleteListQuery(p) ==
    /\ At(p, "deleteList", "query")
    /\ DeleteListsCascade({req[p].listId})
    /\ Respond(p, req[p], IF req[p].listId \in ListIds THEN 200 ELSE 500, {})
    /\ UNCHANGED <<users, sessions, nextId, now, job>>

\* ---------------------------------------------------------------- GET /list/:listId/users
GetListUsersAuthenticate(p) ==
    /\ req[p].pc = "idle"
    /\ \E token \in ClientTokens, listId \in ListIdParams :
         AuthStep(p, ListRequest("getListUsers", token, listId), FALSE, "check")
    /\ UNCHANGED <<tables, now, job>>

GetListUsersCheckPermissions(p) ==
    /\ At(p, "getListUsers", "check")
    /\ CheckStep(p, "read", FALSE, 0)
    /\ UNCHANGED <<tables, now, job>>

GetListUsersQuery(p) ==
    /\ At(p, "getListUsers", "query")
    /\ Respond(p, req[p], 200,
               {<<g.userId, g.role>> : g \in {h \in permissions : h.listId = req[p].listId}})
    /\ UNCHANGED <<tables, now, job>>

\* ---------------------------------------------------------------- GET /list/:listId/user/:userId
GetListUserAuthenticate(p) ==
    /\ req[p].pc = "idle"
    /\ \E token \in ClientTokens, listId \in ListIdParams, target \in UserIdParams :
         AuthStep(p, [ListRequest("getListUser", token, listId) EXCEPT !.target = target],
                  FALSE, "check")
    /\ UNCHANGED <<tables, now, job>>

GetListUserCheckPermissions(p) ==
    /\ At(p, "getListUser", "check")
    /\ CheckStep(p, "read", FALSE, 0)
    /\ UNCHANGED <<tables, now, job>>

GetListUserQuery(p) ==
    /\ At(p, "getListUser", "query")
    /\ Respond(p, req[p], 200,
               {g.role : g \in {h \in permissions : /\ h.listId = req[p].listId
                                                    /\ h.userId = req[p].target}})
    /\ UNCHANGED <<tables, now, job>>

\* ---------------------------------------------------------------- PUT /list/:listId/user/:userId
PutListUserAuthenticate(p) ==
    /\ req[p].pc = "idle"
    /\ nextId.permissions + PendingPerms <= MaxPermId
    /\ \E token \in ClientTokens, listId \in ListIdParams, target \in UserIdParams,
          role \in RoleParams :
         AuthStep(p, [ListRequest("putListUser", token, listId) EXCEPT
                        !.target = target, !.role = role],
                  TRUE, "check")
    /\ UNCHANGED <<tables, now, job>>

\* The handler without its role check: any body.role goes to the insert.
PutListUserCheckPermissionsAnyRole(p) ==
    /\ At(p, "putListUser", "check")
    /\ CheckStep(p, "owner", FALSE, 0)
    /\ UNCHANGED <<tables, now, job>>

\* The handler asking for 'write' only.
PutListUserCheckPermissionsWrite(p) ==
    /\ At(p, "putListUser", "check")
    /\ CheckStep(p, "write", req[p].role \notin {"owner", "write", "read"}, 400)
    /\ UNCHANGED <<tables, now, job>>

PutListUserCheckPermissions(p) ==
    /\ At(p, "putListUser", "check")
    /\ CheckStep(p, "owner", req[p].role \notin {"owner", "write", "read"}, 400)
    /\ UNCHANGED <<tables, now, job>>

PutListUserQuery(p) ==
    /\ At(p, "putListUser", "query")
    /\ LET r == req[p]
       IN IF r.target \in UserIds /\ r.listId \in ListIds
          THEN /\ permissions' = Upsert(permissions, nextId.permissions, r.target,
                                        r.listId, r.role)
               /\ nextId' = [nextId EXCEPT !.permissions =
                                IF \E g \in permissions' : g.id = @ THEN @ + 1 ELSE @]
               /\ Respond(p, r, 200, {})
          ELSE \* a foreign key fails, or the path segment is no BIGINT
               /\ Respond(p, r, 500, {})
               /\ UNCHANGED <<permissions, nextId>>
    /\ UNCHANGED <<users, sessions, lists, items, now, job>>

\* ---------------------------------------------------------------- DELETE /list/:listId/user/:userId
DeleteListUserAuthenticate(p) ==
    /\ req[p].pc = "idle"
    /\ \E token \in ClientTokens, listId \in ListIdParams, target \in UserIdParams :
         AuthStep(p, [ListRequest("deleteListUser", token, listId) EXCEPT !.target = target],
                  FALSE, "check")
    /\ UNCHANGED <<tables, now, job>>

DeleteListUserCheckPermissions(p) ==
    /\ At(p, "deleteListUser", "check")
    /\ CheckStep(p, "owner", FALSE, 0)
    /\ UNCHANGED <<tables, now, job>>

\* The delete keyed by the list alone.
DeleteListUserQueryWholeList(p) ==
    /\ At(p, "deleteListUser", "query")
    /\ permissions' = {g \in permissions : g.listId # req[p].listId}
    /\ Respond(p, req[p], 200, {})
    /\ UNCHANGED <<users, sessions, lists, items, nextId, now, job>>

DeleteListUserQuery(p) ==
    /\ At(p, "deleteListUser", "query")
    /\ permissions' = {g \in permissions :
                         ~(g.userId = req[p].target /\ g.listId = req[p].listId)}
    /\ Respond(p, req[p], 200, {})
    /\ UNCHANGED <<users, sessions, lists, items, nextId, now, job>>

\* ---------------------------------------------------------------- GET /list/:listId/items
GetItemsAuthenticate(p) ==
    /\ req[p].pc = "idle"
    /\ \E token \in ClientTokens, listId \in ListIdParams :
         AuthStep(p, ListRequest("getItems", token, listId), FALSE, "check")
    /\ UNCHANGED <<tables, now, job>>

GetItemsCheckPermissions(p) ==
    /\ At(p, "getItems", "check")
    /\ CheckStep(p, "read", FALSE, 0)
    /\ UNCHANGED <<tables, now, job>>

GetItemsQuery(p) ==
    /\ At(p, "getItems", "query")
    /\ Respond(p, req[p], 200, {i \in items : i.listId = req[p].listId})
    /\ UNCHANGED <<tables, now, job>>

\* ---------------------------------------------------------------- POST /list/:listId/item
\* arg is the state of the body, or "none" for a body without one.
PostItemAuthenticate(p) ==
    /\ req[p].pc = "idle"
    /\ nextId.items + PendingItems <= MaxItemId
    /\ \E token \in ClientTokens, listId \in ListIdParams, state \in StateParams :
         AuthStep(p, [ListRequest("postItem", token, listId) EXCEPT !.arg = state],
                  FALSE, "check")
    /\ UNCHANGED <<tables, now, job>>

PostItemCheckPermissions(p) ==
    /\ At(p, "postItem", "check")
    /\ CheckStep(p, "write", req[p].arg # "none" /\ req[p].arg \notin ItemStates, 400)
    /\ UNCHANGED <<tables, now, job>>

PostItemQuery(p) ==
    /\ At(p, "postItem", "query")
    /\ LET r == req[p]
       IN IF r.listId \in ListIds
          THEN /\ items' = items \cup
                            {[id |-> nextId.items, listId |-> r.listId, name |-> "Apples",
                              state |-> IF r.arg = "none" THEN "in-progress" ELSE r.arg]}
               /\ nextId' = [nextId EXCEPT !.items = @ + 1]
               /\ Respond(p, [r EXCEPT !.itemId = nextId.items], 201, {nextId.items})
          ELSE \* the foreign key on listId fails
               /\ Respond(p, r, 500, {})
               /\ UNCHANGED <<items, nextId>>
    /\ UNCHANGED <<users, sessions, lists, permissions, now, job>>

\* ---------------------------------------------------------------- GET /list/:listId/item/:itemId
GetItemAuthenticate(p) ==
    /\ req[p].pc = "idle"
    /\ \E token \in ClientTokens, listId \in ListIdParams, itemId \in ItemIdParams :
         AuthStep(p, [ListRequest("getItem", token, listId) EXCEPT !.itemId = itemId],
                  FALSE, "check")
    /\ UNCHANGED <<tables, now, job>>

GetItemCheckPermissions(p) ==
    /\ At(p, "getItem", "check")
    /\ CheckStep(p, "read", FALSE, 0)
    /\ UNCHANGED <<tables, now, job>>

GetItemQuery(p) ==
    /\ At(p, "getItem", "query")
    /\ LET results == {i \in items : i.listId = req[p].listId /\ i.id = req[p].itemId}
       IN Respond(p, req[p], IF results = {} THEN 400 ELSE 200, results)
    /\ UNCHANGED <<tables, now, job>>

\* ---------------------------------------------------------------- PUT /list/:listId/item/:itemId
\* arg is the state of the body, or "none" for an empty body.
PutItemAuthenticate(p) ==
    /\ req[p].pc = "idle"
    /\ \E token \in ClientTokens, listId \in ListIdParams, itemId \in ItemIdParams,
          state \in StateParams :
         AuthStep(p, [ListRequest("putItem", token, listId) EXCEPT
                        !.itemId = itemId, !.arg = state],
                  TRUE, "check")
    /\ UNCHANGED <<tables, now, job>>

PutItemCheckPermissions(p) ==
    /\ At(p, "putItem", "check")
    /\ CheckStep(p, "write", req[p].arg \notin ItemStates,
                 IF req[p].arg = "none" THEN 200 ELSE 400)
    /\ UNCHANGED <<tables, now, job>>

PutItemQuery(p) ==
    /\ At(p, "putItem", "query")
    /\ LET r == req[p]
           hit == {i \in items : i.listId = r.listId /\ i.id = r.itemId}
       IN /\ items' = (items \ hit) \cup {[i EXCEPT !.state = r.arg] : i \in hit}
          /\ Respond(p, r, IF hit = {} THEN 400 ELSE 200, {})
    /\ UNCHANGED <<users, sessions, lists, permissions, nextId, now, job>>

\* ---------------------------------------------------------------- DELETE /list/:listId/item/:itemId
DeleteItemAuthenticate(p) ==
    /\ req[p].pc = "idle"
    /\ \E token \in ClientTokens, listId \in ListIdParams, itemId \in ItemIdParams :
         AuthStep(p, [ListRequest("deleteItem", token, listId) EXCEPT !.itemId = itemId],
                  FALSE, "check")
    /\ UNCHANGED <<tables, now, job>>

DeleteItemCheckPermissions(p) ==
    /\ At(p, "deleteItem", "check")
    /\ CheckStep(p, "write", FALSE, 0)
    /\ UNCHANGED <<tables, now, job>>

DeleteItemQuery(p) ==
    /\ At(p, "deleteItem", "query")
    /\ LET hit == {i \in items : i.listId = req[p].listId /\ i.id = req[p].itemId}
       IN /\ items' = items \ hit
          /\ Respond(p, req[p], IF hit = {} THEN 400 ELSE 200, {})
    /\ UNCHANGED <<users, sessions, lists, permissions, nextId, now, job>>

\* ---------------------------------------------------------------- purge
\* The first delete keeping a session for one more lifetime:
\* ... WHERE expirationDate < NOW() - INTERVAL tokenLifetime SECOND.
PurgeSessionsAfterGrace ==
    /\ job.pc = "idle"
    /\ sessions' = {s \in sessions : ~(s.expirationDate + TokenLifetime < now)}
    /\ job' = [pc |-> "lists", conn |-> "held", pass1 |-> "ok", pass2 |-> "none"]
    /\ UNCHANGED <<users, lists, items, permissions, nextId, now, req, resp>>

\* The first delete with the bound included: ... WHERE expirationDate <= NOW().
PurgeSessionsThroughNow ==
    /\ job.pc = "idle"
    /\ sessions' = {s \in sessions : ~(s.expirationDate <= now)}
    /\ job' = [pc |-> "lists", conn |-> "held", pass1 |-> "ok", pass2 |-> "none"]
    /\ UNCHANGED <<users, lists, items, permissions, nextId, now, req, resp>>

\* The timer fires: getConnection, then DELETE ... WHERE expirationDate < NOW().
PurgeSessions ==
    /\ job.pc = "idle"
    /\ sessions' = {s \in sessions : ~(s.expirationDate < now)}
    /\ job' = [pc |-> "lists", conn |-> "held", pass1 |-> "ok", pass2 |-> "none"]
    /\ UNCHANGED <<users, lists, items, permissions, nextId, now, req, resp>>

\* getConnection rejects: nothing was acquired, purge() rejects.
PurgeConnectFails ==
    /\ job.pc = "idle"
    /\ job' = JobIdle("skipped", "skipped")
    /\ UNCHANGED <<tables, now, req, resp>>

\* The first delete rejects: finally releases, the second query is never sent.
PurgeSessionsFails ==
    /\ job.pc = "idle"
    /\ job' = JobIdle("failed", "skipped")
    /\ UNCHANGED <<tables, now, req, resp>>

\* The second delete counting only the rows of signed-in users:
\* ... NOT IN (SELECT listId FROM todo.permissions WHERE userId IS NOT NULL).
PurgeListsIgnoringAnonymous ==
    /\ job.pc = "lists"
    /\ DeleteListsCascade({l.id : l \in lists} \
                          {g.listId : g \in {h \in permissions : h.userId # NULL}})
    /\ job' = JobIdle(job.pass1, "ok")
    /\ UNCHANGED <<users, sessions, nextId, now, req, resp>>

\* DELETE FROM todo.lists WHERE id NOT IN (SELECT DISTINCT listId FROM permissions).
PurgeLists ==
    /\ job.pc = "lists"
    /\ DeleteListsCascade({l.id : l \in lists} \ {g.listId : g \in permissions})
    /\ job' = JobIdle(job.pass1, "ok")
    /\ UNCHANGED <<users, sessions, nextId, now, req, resp>>

\* The second delete rejecting in a purge without its finally block.
PurgeListsFailsNoFinally ==
    /\ job.pc = "lists"
    /\ job' = [JobIdle(job.pass1, "failed") EXCEPT !.conn = "held"]
    /\ UNCHANGED <<tables, now, req, resp>>

\* The second delete rejects: finally releases, purge() rejects.
PurgeListsFails ==
    /\ job.pc = "lists"
    /\ job' = JobIdle(job.pass1, "failed")
    /\ UNCHANGED <<tables, now, req, resp>>

\* ---------------------------------------------------------------- clock
Tick ==
    /\ now < MaxTime
    /\ now' = now + 1
    /\ UNCHANGED <<tables, req, resp, job>>

Init ==
    /\ now = 0
    /\ users = {}
    /\ sessions = {}
    /\ lists = {}
    /\ items = {}
    /\ permissions = {}
    /\ nextId = [users |-> 1, sessions |-> 1, lists |-> 1, items |-> 1, permissions |-> 1,
                 salts |-> 1]
    /\ req = [p \in Procs |-> Idle]
    /\ resp = NoResp
    /\ job = JobIdle("none", "none")

\* Every route and the purge job.
Next ==
    \/ \E p \in Procs :
         \/ SignupInsertUser(p) \/ SignupInsertSession(p)
         \/ GetUserAuthenticate(p) \/ GetUserQuery(p)
         \/ PutUserAuthenticate(p) \/ PutUserQuery(p)
         \/ DeleteUserAuthenticate(p) \/ DeleteUserQuery(p)
         \/ GetNameTaken(p)
         \/ LoginAuthenticate(p) \/ LoginInsertSession(p)
         \/ LogoutAuthenticate(p) \/ LogoutQuery(p)
         \/ GetListsAuthenticate(p) \/ GetListsQuery(p)
         \/ PostListAuthenticate(p) \/ PostListInsertList(p) \/ PostListInsertPermission(p)
         \/ GetListAuthenticate(p) \/ GetListCheckPermissions(p) \/ GetListQuery(p)
         \/ PutListAuthenticate(p) \/ PutListCheckPermissions(p) \/ PutListQuery(p)
         \/ DeleteListAuthenticate(p) \/ DeleteListCheckPermissions(p) \/ DeleteListQuery(p)
         \/ GetListUsersAuthenticate(p) \/ GetListUsersCheckPermissions(p)
         \/ GetListUsersQuery(p)
         \/ GetListUserAuthenticate(p) \/ GetListUserCheckPermissions(p)
         \/ GetListUserQuery(p)
         \/ PutListUserAuthenticate(p) \/ PutListUserCheckPermissions(p)
         \/ PutListUserQuery(p)
         \/ DeleteListUserAuthenticate(p) \/ DeleteListUserCheckPermissions(p)
         \/ DeleteListUserQuery(p)
         \/ GetItemsAuthenticate(p) \/ GetItemsCheckPermissions(p) \/ GetItemsQuery(p)
         \/ PostItemAuthenticate(p) \/ PostItemCheckPermissions(p) \/ PostItemQuery(p)
         \/ GetItemAuthenticate(p) \/ GetItemCheckPermissions(p) \/ GetItemQuery(p)
         \/ PutItemAuthenticate(p) \/ PutItemCheckPermissions(p) \/ PutItemQuery(p)
         \/ DeleteItemAuthenticate(p) \/ DeleteItemCheckPermissions(p) \/ DeleteItemQuery(p)
    \/ PurgeSessions \/ PurgeConnectFails \/ PurgeSessionsFails
    \/ PurgeLists \/ PurgeListsFails
    \/ Tick

Spec == Init /\ [][Next]_vars

\* Two accounts have signed up, one after the other, and hold their sessions.
InitAccounts ==
    /\ now = 0
    /\ users = {[id |-> 1, username |-> "johndoe", password |-> hashPassword("secret", 1),
                 salt |-> 1],
                [id |-> 2, username |-> "janedoe", password |-> hashPassword("hunter2", 2),
                 salt |-> 2]}
    /\ sessions = {[id |-> 1, userId |-> 1, expirationDate |-> TokenLifetime],
                   [id |-> 2, userId |-> 2, expirationDate |-> TokenLifetime]}
    /\ lists = {}
    /\ items = {}
    /\ permissions = {}
    /\ nextId = [users |-> 3, sessions |-> 3, lists |-> 1, items |-> 1, permissions |-> 1,
                 salts |-> 3]
    /\ req = [p \in Procs |-> Idle]
    /\ resp = [NoResp EXCEPT !.op = "signup", !.status = 201, !.token = encrypt(2),
                             !.userId = 2, !.sessionId = 2, !.arg = "janedoe",
                             !.result = {TokenLifetime}]
    /\ job = JobIdle("none", "none")

\* johndoe has then created the list Groceries and owns it.
InitShared ==
    /\ now = 0
    /\ users = {[id |-> 1, username |-> "johndoe", password |-> hashPassword("secret", 1),
                 salt |-> 1],
                [id |-> 2, username |-> "janedoe", password |-> hashPassword("hunter2", 2),
                 salt |-> 2]}
    /\ sessions = {[id |-> 1, userId |-> 1, expirationDate |-> TokenLifetime],
                   [id |-> 2, userId |-> 2, expirationDate |-> TokenLifetime]}
    /\ lists = {[id |-> 1, name |-> "Groceries"]}
    /\ items = {}
    /\ permissions = {[id |-> 1, userId |-> 1, listId |-> 1, role |-> "owner"]}
    /\ nextId = [users |-> 3, sessions |-> 3, lists |-> 2, items |-> 1, permissions |-> 2,
                 salts |-> 3]
    /\ req = [p \in Procs |-> Idle]
    /\ resp = [NoResp EXCEPT !.op = "postList", !.status = 201, !.token = encrypt(1),
                             !.userId = 1, !.sessionId = 1, !.listId = 1,
                             !.arg = "Groceries", !.result = {1}]
    /\ job = JobIdle("none", "none")

\* johndoe alone has signed up and has created the list Groceries.
InitOwner ==
    /\ now = 0
    /\ users = {[id |-> 1, username |-> "johndoe", password |-> hashPassword("secret", 1),
                 salt |-> 1]}
    /\ sessions = {[id |-> 1, userId |-> 1, expirationDate |-> TokenLifetime]}
    /\ lists = {[id |-> 1, name |-> "Groceries"]}
    /\ items = {}
    /\ permissions = {[id |-> 1, userId |-> 1, listId |-> 1, role |-> "owner"]}
    /\ nextId = [users |-> 2, sessions |-> 2, lists |-> 2, items |-> 1, permissions |-> 2,
                 salts |-> 2]
    /\ req = [p \in Procs |-> Idle]
    /\ resp = [NoResp EXCEPT !.op = "postList", !.status = 201, !.token = encrypt(1),
                             !.userId = 1, !.sessionId = 1, !.listId = 1,
                             !.arg = "Groceries", !.result = {1}]
    /\ job = JobIdle("none", "none")

\* The request slot of the specifications that serve one request at a time.
Solo == {1}

\* Lists created, shared and unshared, one request at a time.
NextShare ==
    \/ \E p \in Solo : PostListAuthenticate(p)
    \/ \E p \in Solo : PostListInsertList(p)
    \/ \E p \in Solo : PostListInsertPermission(p)
    \/ \E p \in Solo : PutListUserAuthenticate(p)
    \/ \E p \in Solo : PutListUserCheckPermissions(p)
    \/ \E p \in Solo : PutListUserQuery(p)
    \/ \E p \in Solo : DeleteListUserAuthenticate(p)
    \/ \E p \in Solo : DeleteListUserCheckPermissions(p)
    \/ \E p \in Solo : DeleteListUserQuery(p)

SpecShare == InitAccounts /\ [][NextShare]_vars

\* Lists orphaned by a revoke or by the deletion of an account, and the sweep.
NextReclaim ==
    \/ \E p \in Solo : PostListAuthenticate(p)
    \/ \E p \in Solo : PostListInsertList(p)
    \/ \E p \in Solo : PostListInsertPermission(p)
    \/ \E p \in Solo : DeleteListUserAuthenticate(p)
    \/ \E p \in Solo : DeleteListUserCheckPermissions(p)
    \/ \E p \in Solo : DeleteListUserQuery(p)
    \/ \E p \in Solo : DeleteUserAuthenticate(p)
    \/ \E p \in Solo : DeleteUserQuery(p)
    \/ PurgeSessions
    \/ PurgeConnectFails
    \/ PurgeSessionsFails
    \/ PurgeLists
    \/ PurgeListsFails

SpecReclaim == InitAccounts /\ [][NextReclaim]_vars

\* Every list-scoped and item-scoped route, one request at a time.
NextAccess ==
    \/ \E p \in Solo : GetListAuthenticate(p)
    \/ \E p \in Solo : GetListCheckPermissions(p)
    \/ \E p \in Solo : GetListQuery(p)
    \/ \E p \in Solo : PutListAuthenticate(p)
    \/ \E p \in Solo : PutListCheckPermissions(p)
    \/ \E p \in Solo : PutListQuery(p)
    \/ \E p \in Solo : DeleteListAuthenticate(p)
    \/ \E p \in Solo : DeleteListCheckPermissions(p)
    \/ \E p \in Solo : DeleteListQuery(p)
    \/ \E p \in Solo : GetListUsersAuthenticate(p)
    \/ \E p \in Solo : GetListUsersCheckPermissions(p)
    \/ \E p \in Solo : GetListUsersQuery(p)
    \/ \E p \in Solo : GetListUserAuthenticate(p)
    \/ \E p \in Solo : GetListUserCheckPermissions(p)
    \/ \E p \in Solo : GetListUserQuery(p)
    \/ \E p \in Solo : PutListUserAuthenticate(p)
    \/ \E p \in Solo : PutListUserCheckPermissions(p)
    \/ \E p \in Solo : PutListUserQuery(p)
    \/ \E p \in Solo : DeleteListUserAuthenticate(p)
    \/ \E p \in Solo : DeleteListUserCheckPermissions(p)
    \/ \E p \in Solo : DeleteListUserQuery(p)
    \/ \E p \in Solo : GetItemsAuthenticate(p)
    \/ \E p \in Solo : GetItemsCheckPermissions(p)
    \/ \E p \in Solo : GetItemsQuery(p)
    \/ \E p \in Solo : PostItemAuthenticate(p)
    \/ \E p \in Solo : PostItemCheckPermissions(p)
    \/ \E p \in Solo : PostItemQuery(p)
    \/ \E p \in Solo : GetItemAuthenticate(p)
    \/ \E p \in Solo : GetItemCheckPermissions(p)
    \/ \E p \in Solo : GetItemQuery(p)
    \/ \E p \in Solo : PutItemAuthenticate(p)
    \/ \E p \in Solo : PutItemCheckPermissions(p)
    \/ \E p \in Solo : PutItemQuery(p)
    \/ \E p \in Solo : DeleteItemAuthenticate(p)
    \/ \E p \in Solo : DeleteItemCheckPermissions(p)
    \/ \E p \in Solo : DeleteItemQuery(p)

SpecAccess == InitShared /\ [][NextAccess]_vars

\* Grants on one list, racing.
NextGrantRace ==
    \/ \E p \in Procs : PostListAuthenticate(p)
    \/ \E p \in Procs : PostListInsertList(p)
    \/ \E p \in Procs : PostListInsertPermission(p)
    \/ \E p \in Procs : PutListUserAuthenticate(p)
    \/ \E p \in Procs : PutListUserCheckPermissions(p)
    \/ \E p \in Procs : PutListUserQuery(p)

SpecGrantRace == InitShared /\ [][NextGrantRace]_vars

\* Signup, login, logout, the session check and the sweep, as the clock runs.
NextAuth ==
    \/ \E p \in Procs : SignupInsertUser(p)
    \/ \E p \in Procs : SignupInsertSession(p)
    \/ \E p \in Procs : GetUserAuthenticate(p)
    \/ \E p \in Procs : GetUserQuery(p)
    \/ \E p \in Procs : LoginAuthenticate(p)
    \/ \E p \in Procs : LoginInsertSession(p)
    \/ \E p \in Procs : LogoutAuthenticate(p)
    \/ \E p \in Procs : LogoutQuery(p)
    \/ PurgeSessions
    \/ PurgeLists
    \/ Tick

SpecAuth == Init /\ [][NextAuth]_vars

\* Accounts created, logged into and deleted.
NextSignup ==
    \/ \E p \in Procs : SignupInsertUser(p)
    \/ \E p \in Procs : SignupInsertSession(p)
    \/ \E p \in Procs : LoginAuthenticate(p)
    \/ \E p \in Procs : LoginInsertSession(p)
    \/ \E p \in Procs : DeleteUserAuthenticate(p)
    \/ \E p \in Procs : DeleteUserQuery(p)

SpecSignup == Init /\ [][NextSignup]_vars

\* Lists and items created and deleted through one slot while accounts are
\* deleted through either and the sweep runs.
NextCascade ==
    \/ \E p \in Solo : PostListAuthenticate(p)
    \/ \E p \in Solo : PostListInsertList(p)
    \/ \E p \in Solo : PostListInsertPermission(p)
    \/ \E p \in Solo : PostItemAuthenticate(p)
    \/ \E p \in Solo : PostItemCheckPermissions(p)
    \/ \E p \in Solo : PostItemQuery(p)
    \/ \E p \in Solo : DeleteListAuthenticate(p)
    \/ \E p \in Solo : DeleteListCheckPermissions(p)
    \/ \E p \in Solo : DeleteListQuery(p)
    \/ \E p \in Procs : DeleteUserAuthenticate(p)
    \/ \E p \in Procs : DeleteUserQuery(p)
    \/ PurgeSessions
    \/ PurgeLists

SpecCascade == InitShared /\ [][NextCascade]_vars

\* Grants revoked as the clock runs and the timer keeps starting the sweep.
NextSweep ==
    \/ \E p \in Solo : DeleteListUserAuthenticate(p)
    \/ \E p \in Solo : DeleteListUserCheckPermissions(p)
    \/ \E p \in Solo : DeleteListUserQuery(p)
    \/ PurgeSessions
    \/ PurgeConnectFails
    \/ PurgeSessionsFails
    \/ PurgeLists
    \/ PurgeListsFails
    \/ Tick

\* setInterval never stops; a query that keeps being sent while the database
\* keeps coming back succeeds again and again; the clock moves on.
SpecSweep ==
    /\ InitShared
    /\ [][NextSweep]_vars
    /\ SF_vars(PurgeSessions)
    /\ SF_vars(PurgeLists)
    /\ WF_vars(Tick)

\* Logins, logouts, password changes, grants and revokes, one request at a time,
\* with the sweep and the clock.
NextSessions ==
    \/ \E p \in Solo : LoginAuthenticate(p)
    \/ \E p \in Solo : LoginInsertSession(p)
    \/ \E p \in Solo : LogoutAuthenticate(p)
    \/ \E p \in Solo : LogoutQuery(p)
    \/ \E p \in Solo : PutUserAuthenticate(p)
    \/ \E p \in Solo : PutUserQuery(p)
    \/ \E p \in Solo : PutListUserAuthenticate(p)
    \/ \E p \in Solo : PutListUserCheckPermissions(p)
    \/ \E p \in Solo : PutListUserQuery(p)
    \/ \E p \in Solo : DeleteListUserAuthenticate(p)
    \/ \E p \in Solo : DeleteListUserCheckPermissions(p)
    \/ \E p \in Solo : DeleteListUserQuery(p)
    \/ PurgeSessions
    \/ PurgeLists
    \/ Tick

SpecSessions == InitOwner /\ [][NextSessions]_vars

\* Lists created, listed, read, renamed and deleted, and grants revoked, one
\* request at a time.
NextListing ==
    \/ \E p \in Solo : GetListsAuthenticate(p)
    \/ \E p \in Solo : GetListsQuery(p)
    \/ \E p \in Solo : PostListAuthenticate(p)
    \/ \E p \in Solo : PostListInsertList(p)
    \/ \E p \in Solo : PostListInsertPermission(p)
    \/ \E p \in Solo : GetListAuthenticate(p)
    \/ \E p \in Solo : GetListCheckPermissions(p)
    \/ \E p \in Solo : GetListQuery(p)
    \/ \E p \in Solo : PutListAuthenticate(p)
    \/ \E p \in Solo : PutListCheckPermissions(p)
    \/ \E p \in Solo : PutListQuery(p)
    \/ \E p \in Solo : DeleteListAuthenticate(p)
    \/ \E p \in Solo : DeleteListCheckPermissions(p)
    \/ \E p \in Solo : DeleteListQuery(p)
    \/ \E p \in Solo : DeleteListUserAuthenticate(p)
    \/ \E p \in Solo : DeleteListUserCheckPermissions(p)
    \/ \E p \in Solo : DeleteListUserQuery(p)

SpecListing == InitShared /\ [][NextListing]_vars

\* A list renamed through one slot while its grants are changed and revoked
\* through the others.
NextRevokeRace ==
    \/ \E p \in Solo : PutListAuthenticate(p)
    \/ \E p \in Solo : PutListCheckPermissions(p)
    \/ \E p \in Solo : PutListQuery(p)
    \/ \E p \in Procs \ Solo : PutListUserAuthenticate(p)
    \/ \E p \in Procs \ Solo : PutListUserCheckPermissions(p)
    \/ \E p \in Procs \ Solo : PutListUserQuery(p)
    \/ \E p \in Procs \ Solo : DeleteListUserAuthenticate(p)
    \/ \E p \in Procs \ Solo : DeleteListUserCheckPermissions(p)
    \/ \E p \in Procs \ Solo : DeleteListUserQuery(p)

SpecRevokeRace == InitShared /\ [][NextRevokeRace]_vars

\* ================================================================ claims
SessionIds == {s.id : s \in sessions}
IssuedSessionIds == 1..(nextId.sessions - 1)

\* The token opens to a stored session that has not expired.
Live(token) == \E s \in sessions : token = encrypt(s.id) /\ s.expirationDate > now

\* A response is sent in this step.
Sent(op) == resp' # resp /\ resp'.op = op

C3Step ==
    /\ \A t \in ClientTokens : authenticate(t, TRUE).ok <=> Live(t)
    /\ \A p \in Procs :
         req[p].pc = "idle" /\ req'[p].op = "getUser" =>
           /\ Live(req'[p].token)
           /\ \E s \in sessions : /\ s.id = req'[p].sessionId
                                  /\ s.userId = req'[p].userId
                                  /\ req'[p].token = encrypt(s.id)
    /\ Sent("getUser") /\ resp'.status = 401 => ~Live(resp'.token)

\* C3: authenticate(required) accepts a token exactly when its session is stored
\* and expires strictly after now; GET /user proceeds past authentication only
\* with such a token and answers 401 only without one, so a session that has
\* expired but is still stored is refused.
C3_AuthenticateIffLive == [][C3Step]_vars

\* An expired session still in the table was presented and refused.
C3_Witness ==
    /\ resp.op = "getUser"
    /\ resp.status = 401
    /\ \E s \in sessions : resp.token = encrypt(s.id) /\ s.expirationDate <= now

C4Step ==
    /\ (Sent("signup") /\ resp'.status = 201) \/ (Sent("login") /\ resp'.status = 200) =>
         /\ \E s \in sessions' \ sessions :
              /\ resp'.token = encrypt(s.id)
              /\ s.id = resp'.sessionId
              /\ s.userId = resp'.userId
              /\ s.expirationDate = now + TokenLifetime
              /\ sessions' = sessions \cup {s}
         /\ \E u \in users' : u.id = resp'.userId /\ u.username = resp'.arg
    /\ \A s \in sessions', t \in sessions' : s.id = t.id => s = t
    /\ \A s \in sessions :
         LET a == authenticate(encrypt(s.id), TRUE)
         IN a.ok => a.userId = s.userId /\ a.sessionId = s.id
    /\ \A s \in sessions : s.id \in SessionIds' => s \in sessions'

\* C4: a successful signup or login inserts exactly one session row, for the
\* user that signed up or logged in, expiring TokenLifetime after now, and
\* returns the token of that row; a stored session never changes, and its token
\* authenticates, while it does, as the row's user only.
C4_TokenBoundToUser == [][C4Step]_vars

\* A signup or login succeeded, its token authenticates as its user, and another
\* user exists.
C4_Witness ==
    /\ resp.op \in {"signup", "login"}
    /\ resp.status \in {200, 201}
    /\ \E u \in users : u.id # resp.userId
    /\ \E s \in sessions : resp.token = encrypt(s.id) /\ s.userId = resp.userId
    /\ authenticate(resp.token, TRUE).ok
    /\ authenticate(resp.token, TRUE).userId = resp.userId

C5Step ==
    /\ Sent("logout") /\ resp'.status = 200 /\ resp'.token # NoToken =>
         /\ decrypt(resp'.token) \notin SessionIds'
         /\ sessions' = {s \in sessions : s.id # decrypt(resp'.token)}
    /\ Sent("logout") /\ resp'.token = NoToken =>
         resp'.status = 200 /\ sessions' = sessions
    /\ \A id \in IssuedSessionIds :
         id \notin SessionIds => /\ id \notin SessionIds'
                                 /\ ~authenticate(encrypt(id), TRUE).ok

\* C5: a logout that succeeds with a token deletes that token's session and no
\* other; a session id once absent is never stored again, so its token is
\* refused from then on; a logout without a token answers 200 and deletes nothing.
C5_LogoutDeletesSession == [][C5Step]_vars

\* A logout succeeded while the same user keeps another usable session.
C5_Witness ==
    /\ resp.op = "logout"
    /\ resp.status = 200
    /\ resp.token # NoToken
    /\ decrypt(resp.token) \notin SessionIds
    /\ \E s \in sessions : s.userId = resp.userId /\ s.expirationDate > now

C10Step ==
    /\ Sent("signup") /\ resp'.status = 409 =>
         /\ \E u \in users : u.username = resp'.arg
         /\ users' = users
         /\ sessions' = sessions
    /\ \A u \in users', v \in users' : u.username = v.username => u = v
    /\ \A p \in Procs, q \in Procs :
         /\ p # q
         /\ At(p, "signup", "insertSession")'
         /\ At(q, "signup", "insertSession")'
         /\ req'[p].arg = req'[q].arg
         => ~(req'[p].userId \in UserIds' /\ req'[q].userId \in UserIds')
    /\ \A p \in Procs :
         req[p].pc = "idle" /\ At(p, "signup", "insertSession")' =>
           /\ ~\E u \in users : u.username = req'[p].arg
           /\ \E u \in users' \ users : u.username = req'[p].arg /\ u.id = req'[p].userId

\* C10: a signup answered 409 found its username in todo.users and inserted no
\* user and no session; no two users share a username; of two signups in flight
\* with one username at most one has its user row stored.
C10_DuplicateUsername == [][C10Step]_vars

\* A signup was refused with 409 while the signup that took the name is in flight.
C10_Witness ==
    /\ resp.op = "signup"
    /\ resp.status = 409
    /\ \E p \in Procs : At(p, "signup", "insertSession") /\ req[p].arg = resp.arg

\* The order of the roles: m is strictly above r.
Above(m, r) == <<m, r>> \in {<<"owner", "write">>, <<"owner", "read">>, <<"write", "read">>}
Meets(r, m) == r \in Roles /\ m \in Roles /\ ~Above(m, r)
Subjects == {NULL} \cup (1..MaxUserId)

\* C1: in the state a successful grant of role r to (u, l) leaves, requireAtLeast
\* (u, l, m) is r for every m that r meets and Denied for every m above r; for
\* a pair with no Permission row it is Denied for every m.
C1_GrantThenRequire ==
    /\ resp.op = "putListUser" /\ resp.status = 200 =>
         \A m \in Roles :
           requireAtLeast(permissions, resp.target, resp.listId, m) =
             {IF Above(m, resp.role) THEN Denied ELSE resp.role}
    /\ \A u \in Subjects, l \in ListIdParams :
         (~\E g \in permissions : g.userId = u /\ g.listId = l) =>
           \A m \in Roles : requireAtLeast(permissions, u, l, m) = {Denied}

\* An owner has just changed another user's role on the list to write.
C1_Witness ==
    /\ resp.op = "putListUser"
    /\ resp.status = 200
    /\ resp.role = "write"
    /\ resp.target # resp.userId
    /\ requireAtLeast(permissions, resp.target, resp.listId, "read") = {"write"}
    /\ requireAtLeast(permissions, resp.target, resp.listId, "owner") = {Denied}

ReadOps == {"getList", "getListUsers", "getListUser", "getItems", "getItem"}
WriteOps == {"putList", "postItem", "putItem", "deleteItem"}
OwnerOps == {"deleteList", "putListUser", "deleteListUser"}
ListScopedOps == ReadOps \cup WriteOps \cup OwnerOps
ClaimedMinRole(op) ==
    IF op \in ReadOps THEN "read" ELSE IF op \in WriteOps THEN "write" ELSE "owner"

C2Step ==
    /\ \A p \in Procs :
         req[p].op \in ListScopedOps /\ req[p].pc = "check" /\ req'[p] # req[p] =>
           LET held == {g.role : g \in PermissionRows(permissions, req[p].userId,
                                                      req[p].listId)}
               min == ClaimedMinRole(req[p].op)
           IN /\ tables' = tables
              /\ req'[p].pc = "query" => req'[p].granted \in held /\ Meets(req'[p].granted, min)
              /\ (~\E r \in held : Meets(r, min)) =>
                   req'[p] = Idle /\ resp'.op = req[p].op /\ resp'.status = 403
              /\ (\E r \in held : Meets(r, min)) =>
                   ~(resp' # resp /\ resp'.status = 403)
    /\ \A p \in Procs :
         req'[p].op \in ListScopedOps /\ req'[p].pc = "query" /\ req'[p] # req[p] =>
           req[p].pc = "check" /\ req[p].op = req'[p].op
    /\ <<lists, items, permissions>>' # <<lists, items, permissions>> =>
         \E p \in Procs : /\ req[p].op \in ListScopedOps
                           /\ req[p].pc = "query"
                           /\ req'[p] = Idle
                           /\ Meets(req[p].granted, ClaimedMinRole(req[p].op))

\* C2: a list-scoped or item-scoped handler reaches its query only through its
\* permission step; that step passes only with a held role that meets read for
\* the reads, write for rename and item create/update/delete, owner for list
\* delete, grant and revoke, and otherwise answers 403; lists, items and
\* permissions change only in the query of a request that passed.
C2_CheckBeforeWrite == [][C2Step]_vars

\* A user holding read on the list was refused the rename.
C2_Witness ==
    /\ resp.op = "putList"
    /\ resp.status = 403
    /\ \E g \in permissions : /\ g.userId = resp.userId
                               /\ g.listId = resp.listId
                               /\ g.role = "read"

Referenced == {g.listId : g \in permissions}

C6Step ==
    job.pc = "lists" /\ job'.pc = "idle" /\ job'.pass2 = "ok" =>
      /\ lists' = {l \in lists : l.id \in Referenced}
      /\ \A l \in lists : l.id \notin Referenced => l.id \notin ListIds'
      /\ permissions' = permissions

\* C6: the list pass of a purge run deletes every list that no Permission row
\* references when it executes, and no other list.
C6_PurgeOrphanedLists == [][C6Step]_vars

\* The last grant of a list was revoked and a completed run has removed the list,
\* while a list that still has its owner is kept.
C6_Witness ==
    /\ job.pc = "idle"
    /\ job.pass2 = "ok"
    /\ resp.op = "deleteListUser"
    /\ resp.status = 200
    /\ resp.listId \notin ListIds
    /\ lists # {}

\* C7: a run whose session delete failed has still attempted its list delete.
C7_PassesIndependent ==
    job.pc = "idle" /\ job.pass1 = "failed" => job.pass2 \in {"ok", "failed"}

\* C8: no two Permission rows share (userId, listId), NULL included; the row of
\* the pair a grant just succeeded for carries that grant's role.
C8_OnePermissionPerPair ==
    /\ \A g \in permissions, h \in permissions :
         g.userId = h.userId /\ g.listId = h.listId => g = h
    /\ resp.op = "putListUser" /\ resp.status = 200 =>
         \E g \in permissions :
           /\ g.userId = resp.target /\ g.listId = resp.listId /\ g.role = resp.role
           /\ PermissionRows(permissions, resp.target, resp.listId) = {g}

\* One grant for a pair has succeeded while another grant for the same pair, with
\* another role, has passed its permission step and is about to write.
C8_Witness ==
    /\ resp.op = "putListUser"
    /\ resp.status = 200
    /\ \E p \in Procs : /\ At(p, "putListUser", "query")
                          /\ req[p].target = resp.target
                          /\ req[p].listId = resp.listId
                          /\ req[p].role # resp.role
    /\ \E g \in permissions : g.userId = NULL

Pair(g) == <<g.userId, g.listId>>

C9Step ==
    /\ Sent("putListUser") /\ resp'.status = 200 =>
         LET pair == <<resp'.target, resp'.listId>>
             before == {g \in permissions : Pair(g) = pair}
             after == {g \in permissions' : Pair(g) = pair}
         IN /\ {g \in permissions' : Pair(g) # pair} = {g \in permissions : Pair(g) # pair}
            /\ Cardinality(after) = 1
            /\ \A g \in after : g.role = resp'.role
            /\ before # {} => {g.id : g \in after} = {g.id : g \in before}
            /\ (\E g \in before : g.role = resp'.role) => permissions' = permissions
    /\ \A p \in Procs :
         At(p, "deleteListUser", "query") /\ req'[p] # req[p] =>
           LET pair == <<req[p].target, req[p].listId>>
           IN /\ resp'.op = "deleteListUser" /\ resp'.status = 200
              /\ permissions' = {g \in permissions : Pair(g) # pair}
              /\ (~\E g \in permissions : Pair(g) = pair) => permissions' = permissions

\* C9: a successful grant leaves exactly one row for its pair, with the granted
\* role and, when the pair had a row, that row's id, and changes nothing when
\* the row already had the role; a revoke deletes the rows of its pair, answers
\* 200 also when there is none, and then changes nothing; neither touches the
\* row of another pair.
C9_GrantRevokeIdempotent == [][C9Step]_vars

\* A revoke has succeeded and the same revoke, repeated, is about to run against
\* a table without the row, next to the row of another pair.
C9_Witness ==
    /\ resp.op = "deleteListUser"
    /\ resp.status = 200
    /\ \E p \in Procs : /\ At(p, "deleteListUser", "query")
                          /\ req[p].target = resp.target
                          /\ req[p].listId = resp.listId
    /\ ~\E g \in permissions : Pair(g) = <<resp.target, resp.listId>>
    /\ permissions # {}

C11Step ==
    /\ \A p \in Procs :
         /\ At(p, "putListUser", "check")
         /\ req[p].role \notin Roles
         /\ req'[p] # req[p]
         => /\ req'[p] = Idle
            /\ resp'.op = "putListUser"
            /\ resp'.status =
                 IF \E g \in PermissionRows(permissions, req[p].userId, req[p].listId) :
                      g.role = "owner"
                 THEN 400 ELSE 403
            /\ tables' = tables
    /\ \A p \in Procs : At(p, "putListUser", "query")' => req'[p].role \in Roles
    /\ \A g \in permissions \cup permissions' : g.role \in Roles

\* C11: a grant whose role is not owner, write or read never reaches its insert:
\* the owner who sends it is answered 400 (invalid-role), anyone else 403, and
\* no table changes; every Permission row carries one of the three roles.
C11_InvalidRoleRejected == [][C11Step]_vars

\* The owner of a list was answered 400 and the list's rows are as they were.
C11_Witness ==
    /\ resp.op = "putListUser"
    /\ resp.status = 400
    /\ \E g \in permissions : g.role = "owner" /\ g.userId # NULL

\* Every foreign key of the three referencing tables holds.
ReferencesHold(us, ss, ls, is, ps) ==
    /\ \A s \in ss : \E u \in us : u.id = s.userId
    /\ \A g \in ps : /\ \E l \in ls : l.id = g.listId
                      /\ (g.userId = NULL \/ \E u \in us : u.id = g.userId)
    /\ \A i \in is : \E l \in ls : l.id = i.listId

C12Step ==
    /\ ReferencesHold(users, sessions, lists, items, permissions)
    /\ ReferencesHold(users', sessions', lists', items', permissions')
    /\ Sent("deleteUser") /\ resp'.status = 200 =>
         /\ resp'.userId \in UserIds \ UserIds'
         /\ sessions' = {s \in sessions : s.userId # resp'.userId}
         /\ permissions' = {g \in permissions : g.userId # resp'.userId}
         /\ lists' = lists /\ items' = items
    /\ \A l \in ListIds \ ListIds' :
         /\ permissions' = {g \in permissions : g.listId \in ListIds'}
         /\ items' = {i \in items : i.listId \in ListIds'}
         /\ ~\E g \in permissions' : g.listId = l
         /\ ~\E i \in items' : i.listId = l

\* C12: every Session names a stored User, every Permission a stored List and a
\* stored User or NULL, every Item a stored List; a successful DELETE /user
\* removes exactly the user's Sessions and Permissions with the user; the step
\* that deletes a List, a DELETE /list or the sweep, removes exactly the
\* Permissions and Items of the deleted lists with them.
C12_ReferencesHold == [][C12Step]_vars

\* An account was deleted, the sweep then removed the list it alone owned, with
\* the list's item, while the other account and its session are kept.
C12_Witness ==
    /\ resp.op = "deleteUser"
    /\ resp.status = 200
    /\ job.pc = "idle" /\ job.pass2 = "ok"
    /\ nextId.items > 1 /\ items = {}
    /\ nextId.lists > 1 /\ lists = {}
    /\ sessions # {}

C13Step ==
    job.pc = "idle" /\ job'.pc = "lists" =>
      /\ sessions' = {s \in sessions : s.expirationDate >= now}
      /\ \A s \in sessions \ sessions' :
           s.expirationDate < now /\ ~authenticate(encrypt(s.id), TRUE).ok
      /\ \A s \in sessions : authenticate(encrypt(s.id), TRUE).ok => s \in sessions'
      /\ ~\E s \in sessions' : s.expirationDate < now
      /\ UNCHANGED <<users, lists, items, permissions, nextId>>

\* C13: the session pass of a purge run, when it succeeds, deletes exactly the
\* Session rows whose expirationDate is before now: none that authenticate
\* accepts, and it leaves none that had expired before the run.
C13_PurgeExpiredSessions == [][C13Step]_vars

\* The session pass has run: a session issued earlier is gone and its token was
\* then refused, while a session expiring at this very second is still stored.
C13_Witness ==
    /\ job.pc = "lists"
    /\ resp.op = "getUser"
    /\ resp.status = 401
    /\ decrypt(resp.token) \in IssuedSessionIds \ SessionIds
    /\ \E s \in sessions : s.expirationDate = now

\* The session is stored and authenticate refuses it as expired; the clock can
\* still move past its expirationDate.
Expired(id) ==
    \E s \in sessions : s.id = id /\ s.expirationDate <= now /\ s.expirationDate < MaxTime

Orphaned(l) == l \in ListIds /\ l \notin Referenced

\* C14: runs of the purge job keep starting; every stored session that has
\* expired is eventually deleted and every list without a Permission row is
\* eventually deleted.
C14_EventuallyReclaimed ==
    /\ []<>(job.pc = "lists")
    /\ \A id \in 1..MaxSessionId : Expired(id) ~> (id \notin SessionIds)
    /\ \A l \in 1..MaxListId : Orphaned(l) ~> (l \notin ListIds)

\* A run has deleted the expired sessions and the list whose only grant had been
\* revoked.
C14_Witness ==
    /\ now > TokenLifetime
    /\ job.pc = "idle" /\ job.pass2 = "ok"
    /\ sessions = {}
    /\ lists = {}
    /\ resp.op = "deleteListUser" /\ resp.status = 200

\* A step in which the run fails: at getConnection or in one of its deletes.
RunFails ==
    /\ job' # job
    /\ \/ job.pc = "idle" /\ job'.pass1 \in {"skipped", "failed"}
       \/ job.pc = "lists" /\ job'.pass2 = "failed"

C15Step ==
    /\ RunFails =>
         /\ job'.pc = "idle"
         /\ job'.conn = "released"
         /\ UNCHANGED <<tables, now, req, resp>>
    /\ job.pc = "idle" => job.conn = "released" /\ ENABLED PurgeSessions
    /\ job.pc = "lists" <=> job.conn = "held"

\* C15: a purge run that fails, at getConnection or in either delete, ends with
\* its connection released and the job idle, so that the timer can start the
\* next run; the failure changes no table, no request in flight and no response.
C15_PurgeFailureContained == [][C15Step]_vars

\* The list delete of the last run failed: the list whose only grant was revoked
\* is still stored, the connection is released, a request is being served.
C15_Witness ==
    /\ job = JobIdle("ok", "failed")
    /\ \E l \in lists : l.id \notin Referenced
    /\ \E p \in Procs : req[p].pc # "idle"

C16Step ==
    /\ \A p \in Procs :
         At(p, "postList", "insertPermission") /\ req[p].listId \in ListIds =>
           req[p].listId \in ListIds'
    /\ Sent("postList") /\ resp'.status = 201 =>
         /\ resp'.listId \in ListIds'
         /\ \E g \in permissions' : /\ g.listId = resp'.listId
                                     /\ g.userId = resp'.userId
                                     /\ g.role = "owner"

\* C16: a list that POST /list has inserted is not deleted before the request
\* has inserted its owner row, and a POST /list answered 201 leaves the list
\* stored with an owner row for its creator.
C16_CreateWithOwner == [][C16Step]_vars

C17Step ==
    /\ \A s \in sessions : s.id \in SessionIds' => s \in sessions'
    /\ \A s \in sessions' \ sessions :
         /\ s.id = nextId.sessions
         /\ Sent("login")
    /\ sessions' # sessions =>
         \/ Sent("login") /\ resp'.status = 200
         \/ Sent("logout") /\ resp'.status = 200
         \/ job.pc = "idle" /\ job'.pc = "lists"
    /\ \A p \in Procs : At(p, "putUser", "update") /\ req'[p] # req[p] =>
         sessions' = sessions

\* C17: a stored session keeps its id, userId and expirationDate until it is
\* deleted; sessions change only by the insert of a login, the delete of a
\* logout and the delete of the sweep, so a password change, a grant or a
\* revoke leaves every session as it was.
C17_SessionsImmutable == [][C17Step]_vars

\* The password was changed and the session that changed it is still accepted,
\* next to a second session of the same user.
C17_Witness ==
    /\ resp.op = "putUser"
    /\ resp.status = 200
    /\ resp.arg # "none"
    /\ \E u \in users : u.id = resp.userId /\ u.salt # 1
    /\ authenticate(resp.token, TRUE).ok
    /\ \E s \in sessions : s.userId = resp.userId /\ s.id # resp.sessionId

C18Step ==
    /\ Sent("getLists") /\ resp'.status = 200 =>
         /\ resp'.result =
              {l \in lists : \E g \in permissions : g.listId = l.id /\ g.userId = resp'.userId}
         /\ ~\E l \in resp'.result : Orphaned(l.id)
    /\ \A l \in ListIds : Orphaned(l) =>
         \A u \in Subjects, m \in Roles : checkPermissions(u, l, m) = {Denied}
    /\ \A p \in Procs :
         /\ req[p].op \in ListScopedOps
         /\ req[p].pc = "check"
         /\ Orphaned(req[p].listId)
         /\ req'[p] # req[p]
         => req'[p] = Idle /\ resp'.op = req[p].op /\ resp'.status = 403

\* C18: GET /lists answers with exactly the lists on which the caller's
\* identity, a user id or NULL, has a Permission row, so never with a list that
\* has no Permission row; on such a list checkPermissions denies every identity
\* every role, and the permission step of every request answers 403.
C18_OrphanUnreachable == [][C18Step]_vars

\* A list whose only grant was revoked is stored, and a caller was just listed
\* the other list, on which it has a row.
C18_Witness ==
    /\ resp.op = "getLists"
    /\ resp.status = 200
    /\ resp.result # {}
    /\ \E l \in lists : Orphaned(l.id) /\ l \notin resp.result

Owners(perms, l) == {g \in perms : g.listId = l /\ g.role = "owner"}

\* C19: each list has at most one Permission row whose role is owner.
C19_AtMostOneOwner ==
    \A l \in ListIdParams : Cardinality(Owners(permissions, l)) <= 1

C19Step ==
    /\ \A l \in ListIdParams :
         \A g \in Owners(permissions', l) \ Owners(permissions, l) :
           \/ /\ Sent("postList") /\ resp'.status = 201
              /\ resp'.listId = l /\ g.userId = resp'.userId
              /\ Owners(permissions', l) = {g}
           \/ \E p \in Procs :
                /\ At(p, "putListUser", "query") /\ req'[p] = Idle
                /\ req[p].listId = l /\ req[p].role = "owner" /\ g.userId = req[p].target
                /\ req[p].granted = "owner"
                /\ Sent("putListUser") /\ resp'.status = 200
    /\ \A l \in ListIdParams :
         \A g \in Owners(permissions', l), h \in Owners(permissions', l) :
           g.userId = h.userId => g = h

\* C19 as amended: a list is created with exactly one owner row, its creator's;
\* a row becomes an owner row afterwards only by a grant of owner from a caller
\* whose permission check found it to hold owner on the list; no identity holds
\* two owner rows of one list.
C19_OwnersByOwnerGrant == [][C19Step]_vars

\* The owner of a list has granted owner to another user: the list has two owners.
C19_Witness ==
    /\ resp.op = "putListUser"
    /\ resp.status = 200
    /\ resp.role = "owner"
    /\ resp.target # resp.userId
    /\ Cardinality(Owners(permissions, resp.listId)) = 2

C20Step ==
    \A op \in ListScopedOps :
      /\ Sent(op)
      /\ resp'.token = NoToken
      /\ \A l \in ListIdParams :
           checkPermissions(NULL, l, ClaimedMinRole(op)) # {Denied}
      => resp'.status # 401

\* C20: a list-scoped or item-scoped request sent without a token, when the
\* anonymous identity holds on every list a role that meets the operation's
\* minimum role, is not refused for want of a token.
C20_AnonymousAsAuthenticated == [][C20Step]_vars

C21Step ==
    \A p \in Procs :
      /\ req[p].op \in ListScopedOps
      /\ req[p].pc = "query"
      /\ req'[p] # req[p]
      /\ <<lists, items, permissions>>' # <<lists, items, permissions>>
      => \E g \in PermissionRows(permissions, req[p].userId, req[p].listId) :
           Meets(g.role, ClaimedMinRole(req[p].op))

\* C21: the statement by which a list-scoped or item-scoped request changes
\* lists, items or permissions executes only while the request's identity holds,
\* in the table as it is at that instant, a role that meets the operation's
\* minimum role.
C21_NoWriteAfterRevoke == [][C21Step]_vars
====
